---- MODULE Spec2Model ----
(***************************************************************************)
(* Model of bulk_uploader.js: the run of publishPosts() over a content     *)
(* tree, with the external converter (pandoc through execSync), the Ghost  *)
(* Admin API client (api.posts.add) and fs.readdir as environments whose   *)
(* outcomes are chosen nondeterministically.                               *)
(*                                                                         *)
(* File names and converter output are sequences of one-character strings  *)
(* so that endsWith, path.parse and trim are computed, not assumed.        *)
(***************************************************************************)
EXTENDS Naturals, Integers, Sequences, FiniteSets, TLC

(* ---------------------------- bounds ----------------------------------- *)

MaxRootEntries == 2     \* entries in the listing of the content root
MaxEntries == 3         \* entries in the listings of all tag directories

(* ------------------------ input domains -------------------------------- *)

\* Names a first-level entry of the content root can have.
Tags == {"t1", "t2"}

\* A Dirent of the root listing (fs.readdir with withFileTypes).
RootEntries ==
    [name : Tags, isDir : {TRUE}] \cup [name : {"r.md"}, isDir : {FALSE}]

F_a_md == <<"a", ".", "m", "d">>
F_dot_md == <<".", "m", "d">>
F_b_MD == <<"b", ".", "M", "D">>

\* Names an entry directly inside a tag directory can have (fs.readdir
\* without withFileTypes returns the names of the direct entries only).
DirNames == {F_a_md, F_dot_md, F_b_MD}

\* What the converter can write to standard output: nothing, white space
\* only, or HTML with white space around it.
Outputs == {<<>>, <<" ">>, <<" ", "h", " ">>}

\* Values of POST_STATUS in the environment: <<>> is "not set", <<s>> is
\* "set to the string s" (dotenv sets POST_STATUS= to the empty string).
EnvValues == {<<>>, <<"">>, <<"published">>}

(* ------------------------- generic helpers ----------------------------- *)

SeqsUpTo(S, n) == UNION {[1..k -> S] : k \in 0..n}

Distinct(s) == \A i, j \in 1..Len(s) : i # j => s[i] # s[j]

DistinctNames(s) == \A i, j \in 1..Len(s) : i # j => s[i].name # s[j].name

Range(s) == {s[i] : i \in 1..Len(s)}

\* Array.prototype.filter
RECURSIVE Filter(_, _)
Filter(s, keep) ==
    IF s = <<>> THEN <<>>
    ELSE (IF s[1] \in keep THEN <<s[1]>> ELSE <<>>) \o Filter(Tail(s), keep)

\* Array.prototype.map(dir => dir.name)
Names(s) == [i \in 1..Len(s) |-> s[i].name]

(* ------------------- library functions, as computed -------------------- *)

\* String.prototype.endsWith
EndsWith(s, suf) ==
    /\ Len(s) >= Len(suf)
    /\ SubSeq(s, Len(s) - Len(suf) + 1, Len(s)) = suf

IsSpace(c) == c = " "

\* String.prototype.trim
RECURSIVE TrimLeft(_)
TrimLeft(s) ==
    IF s # <<>> /\ IsSpace(s[1]) THEN TrimLeft(Tail(s)) ELSE s

RECURSIVE TrimRight(_)
TrimRight(s) ==
    IF s # <<>> /\ IsSpace(s[Len(s)])
    THEN TrimRight(SubSeq(s, 1, Len(s) - 1)) ELSE s

Trim(s) == TrimRight(TrimLeft(s))

\* path.parse(p).name for a p without a separator (posix): the backward scan
\* of node's lib/path.js.  st = <<startDot, preDotState>> after scanning
\* positions i..Len(p); startDot = 0 stands for "no dot seen".
RECURSIVE ScanDots(_, _, _)
ScanDots(p, i, st) ==
    IF i = 0 THEN st
    ELSE IF p[i] = "."
         THEN ScanDots(p, i - 1,
                       IF st[1] = 0 THEN <<i, st[2]>> ELSE <<st[1], 1>>)
         ELSE ScanDots(p, i - 1,
                       IF st[1] # 0 THEN <<st[1], -1>> ELSE st)

ParseName(p) ==
    LET st == ScanDots(p, Len(p), <<0, 0>>)
        startDot == st[1]
        preDotState == st[2]
    IN  IF \/ startDot = 0
           \/ preDotState = 0
           \/ (preDotState = 1 /\ startDot = Len(p) /\ startDot = 2)
        THEN p
        ELSE SubSeq(p, 1, startDot - 1)

MdSuffix == <<".", "m", "d">>

\* Variant: the filter also accepts the extension in upper case.
IsMd_AnyCase(file) ==
    EndsWith(file, MdSuffix) \/ EndsWith(file, <<".", "M", "D">>)

\* file => file.endsWith('.md')
IsMd(file) == EndsWith(file, MdSuffix)

(* ------------------------------ state ---------------------------------- *)

VARIABLES
    env,          \* process.env.POST_STATUS, an element of EnvValues
    rootList,     \* the Dirents of the content root, in listing order
    tree,         \* tag directory name -> its entry names, in listing order
    pc,           \* position of the main async function
    status,       \* const status of publishPosts
    directories,  \* const directories of publishPosts (names)
    di,           \* cursor of "for (const tagDir of directories)"
    mdFiles,      \* const mdFiles of the current tag directory
    fi,           \* cursor of "for (const mdFile of mdFiles)"
    htmlData,     \* const htmlData of the current file
    inflight,     \* calls that were started and have not returned/settled
    trace,        \* calls, their outcomes and the error logs, in order
    rejected,     \* the promise of the main async function was rejected
    exitCode      \* <<>> while the process runs, <<code>> once it exited

vars == <<env, rootList, tree, pc, status, directories, di, mdFiles, fi,
          htmlData, inflight, trace, rejected, exitCode>>

NoStatus == "<unassigned>"
NoTag == "<none>"

Null == [isNull |-> TRUE, text |-> <<>>]
Str(s) == [isNull |-> FALSE, text |-> s]

\* Variant: the test is "htmlData !== null".
Truthy_NotNull(v) == ~v.isNull

\* JavaScript truthiness of a string-or-null value: if (htmlData)
Truthy(v) == ~v.isNull /\ v.text # <<>>

\* One entry of the trace.  path is the path below the content root that the
\* entry is about; title, html, tag and status are the payload of an "add".
Ev(ev, path, title, html, tag, st) ==
    [ev |-> ev, path |-> path, title |-> title, html |-> html, tag |-> tag,
     status |-> st]

Note(ev, path) == Ev(ev, path, <<>>, <<>>, NoTag, NoStatus)

Call(kind, path) == [kind |-> kind, path |-> path]

\* Listings a directory can have.  The names of the tag directories are
\* labels, so t1 is the one that is listed first: a root listing with t2
\* before t1 is a listing of this set with the two names exchanged.
RootListings ==
    {s \in SeqsUpTo(RootEntries, MaxRootEntries) :
        /\ DistinctNames(s)
        /\ \A i, j \in 1..Len(s) : s[i].name = "t1" /\ s[j].name = "t2" => i < j}
DirListings == {s \in SeqsUpTo(DirNames, MaxEntries) : Distinct(s)}

RECURSIVE TotalEntries(_, _)
TotalEntries(tr, tags) ==
    IF tags = {} THEN 0
    ELSE LET t == CHOOSE x \in tags : TRUE
         IN  Len(tr[t]) + TotalEntries(tr, tags \ {t})

\* dirent => dirent.isDirectory()
IsDirectory(d) == d.isDir

TagDirsOf(list) == {list[i].name : i \in {j \in 1..Len(list) : list[j].isDir}}

Init ==
    /\ env \in EnvValues
    /\ rootList \in RootListings
    /\ tree \in [Tags -> DirListings]
    /\ \A t \in Tags : t \notin TagDirsOf(rootList) => tree[t] = <<>>
    /\ TotalEntries(tree, Tags) <= MaxEntries
    /\ pc = "main"
    /\ status = NoStatus
    /\ directories = <<>>
    /\ di = 0
    /\ mdFiles = <<>>
    /\ fi = 0
    /\ htmlData = Null
    /\ inflight = {}
    /\ trace = <<>>
    /\ rejected = FALSE
    /\ exitCode = <<>>

(* --------------------------- error handling ---------------------------- *)

\* Variant: convertMarkdownToHtml has no try/catch of its own.
Handler_NoConvertCatch(site) ==
    CASE site = "execSync" -> "publishPosts"
      [] site = "postsAdd" -> "publishPost"
      [] site = "readdirRoot" -> "publishPosts"
      [] site = "readdirTag" -> "publishPosts"

\* Variant: publishPost has no try/catch of its own.
Handler_NoPublishCatch(site) ==
    CASE site = "execSync" -> "convertMarkdownToHtml"
      [] site = "postsAdd" -> "publishPosts"
      [] site = "readdirRoot" -> "publishPosts"
      [] site = "readdirTag" -> "publishPosts"

\* Variant: neither convertMarkdownToHtml nor publishPost has a try/catch.
Handler_NoLocalCatch(site) == "publishPosts"

\* Variant: the listing of a tag directory is outside the try block.
Handler_TagListingUncaught(site) ==
    CASE site = "execSync" -> "convertMarkdownToHtml"
      [] site = "postsAdd" -> "publishPost"
      [] site = "readdirRoot" -> "publishPosts"
      [] site = "readdirTag" -> "none"

\* Variant: the listing of the content root is outside the try block.
Handler_RootListingUncaught(site) ==
    CASE site = "execSync" -> "convertMarkdownToHtml"
      [] site = "postsAdd" -> "publishPost"
      [] site = "readdirRoot" -> "none"
      [] site = "readdirTag" -> "publishPosts"

\* The function whose try/catch catches an exception thrown at a call site.
Handler(site) ==
    CASE site = "execSync" -> "convertMarkdownToHtml"
      [] site = "postsAdd" -> "publishPost"
      [] site = "readdirRoot" -> "publishPosts"
      [] site = "readdirTag" -> "publishPosts"

\* An exception (already noted in the trace tr) reaches the frame of
\* publishPosts: its catch logs it and the function returns; with no catch
\* the main promise is rejected.
Propagate(h, tr, path) ==
    /\ pc' = "returned"
    /\ rejected' = (h # "publishPosts")
    /\ trace' = IF h = "publishPosts"
                THEN Append(tr, Note("log:fatal", path))
                ELSE tr

(* ------------------------------ actions -------------------------------- *)

\* Variant: the status is always 'draft'.
ReadStatus_AlwaysDraft(e) == "draft"

\* process.env.POST_STATUS || 'draft'
ReadStatus(e) == IF e # <<>> /\ e[1] # "" THEN e[1] ELSE "draft"

\* The main async function starts: logEnvironmentVariables(), then the
\* prologue of publishPosts up to the first await.
Main ==
    /\ pc = "main"
    /\ status' = ReadStatus(env)
    /\ pc' = "readRoot"
    /\ UNCHANGED <<env, rootList, tree, directories, di, mdFiles, fi, htmlData,
                   inflight, trace, rejected, exitCode>>

\* await fs.readdir(srcDir, { withFileTypes: true }) and the filter; an empty
\* directories array ends the outer loop at once.
ReadRoot ==
    /\ pc = "readRoot"
    /\ \/ /\ directories' = Names(Filter(rootList, {d \in RootEntries : IsDirectory(d)}))
          /\ di' = 1
          /\ pc' = IF directories' = <<>> THEN "returned" ELSE "readTag"
          /\ trace' = Append(trace, Note("readdir:ok", <<>>))
          /\ UNCHANGED rejected
       \/ /\ Propagate(Handler("readdirRoot"),
                       Append(trace, Note("readdir:throw", <<>>)), <<>>)
          /\ UNCHANGED <<directories, di>>
    /\ UNCHANGED <<env, rootList, tree, status, mdFiles, fi, htmlData, inflight,
                   exitCode>>

\* Where the loops go after the body for mdFiles[fi] is finished.
Advance ==
    IF fi < Len(mdFiles)
    THEN /\ fi' = fi + 1
         /\ pc' = "convert"
         /\ UNCHANGED di
    ELSE /\ fi' = fi
         /\ di' = di + 1
         /\ pc' = IF di < Len(directories) THEN "readTag" ELSE "returned"

\* await fs.readdir(tagPath), the .md filter, and the head of the inner loop.
ReadTag ==
    /\ pc = "readTag"
    /\ LET tag == directories[di]
           tagPath == <<tag>>
       IN
       \/ /\ mdFiles' = Filter(tree[tag], {f \in DirNames : IsMd(f)})
          /\ trace' = Append(trace, Note("readdir:ok", tagPath))
          /\ IF mdFiles' = <<>>
             THEN /\ fi' = 0
                  /\ di' = di + 1
                  /\ pc' = IF di < Len(directories) THEN "readTag" ELSE "returned"
             ELSE /\ fi' = 1
                  /\ pc' = "convert"
                  /\ UNCHANGED di
          /\ UNCHANGED rejected
       \/ /\ Propagate(Handler("readdirTag"),
                       Append(trace, Note("readdir:throw", tagPath)), tagPath)
          /\ UNCHANGED <<mdFiles, fi, di>>
    /\ UNCHANGED <<env, rootList, tree, status, directories, htmlData, inflight,
                   exitCode>>

\* path.join(tagPath, mdFile), relative to the content root
MarkdownPath == <<directories[di], mdFiles[fi]>>

\* convertMarkdownToHtml(markdownPath) is entered and execSync starts pandoc.
ConvertCall ==
    /\ pc = "convert"
    /\ inflight' = inflight \cup {Call("convert", MarkdownPath)}
    /\ trace' = Append(trace, Note("convert", MarkdownPath))
    /\ pc' = "converting"
    /\ UNCHANGED <<env, rootList, tree, status, directories, di, mdFiles, fi,
                   htmlData, rejected, exitCode>>

\* execSync returns the output of pandoc or throws; convertMarkdownToHtml
\* returns; then "if (htmlData)".
ConvertReturn ==
    /\ pc = "converting"
    /\ inflight' = inflight \ {Call("convert", MarkdownPath)}
    /\ \/ \E out \in Outputs :
             /\ htmlData' = Str(Trim(out))
             /\ trace' = Append(trace,
                    Ev("convert:ok", MarkdownPath, <<>>, out, NoTag, NoStatus))
             /\ IF Truthy(htmlData')
                THEN pc' = "publish" /\ UNCHANGED <<di, fi>>
                ELSE Advance
             /\ UNCHANGED rejected
       \/ LET h == Handler("execSync")
              tr == Append(trace, Note("convert:throw", MarkdownPath))
          IN  IF h = "convertMarkdownToHtml"
              THEN /\ htmlData' = Null
                   /\ trace' = Append(tr, Note("log:convert", MarkdownPath))
                   /\ Advance
                   /\ UNCHANGED rejected
              ELSE /\ Propagate(h, tr, MarkdownPath)
                   /\ UNCHANGED <<htmlData, di, fi>>
    /\ UNCHANGED <<env, rootList, tree, status, directories, mdFiles, exitCode>>

\* const title = path.parse(mdFile).name
Title(mdFile) == ParseName(mdFile)

\* Variant: publishPost is called without await.
AwaitsPublishPost_Not == FALSE

\* Whether publishPosts suspends until the promise of publishPost settles.
AwaitsPublishPost == TRUE

\* publishPost(title, htmlData, tag, status) is entered and api.posts.add
\* sends the request { title, html, tags: [{ name: tag }], status }.
PublishCall ==
    /\ pc = "publish"
    /\ LET tag == directories[di]
           title == Title(mdFiles[fi])
       IN  trace' = Append(trace,
                Ev("add", MarkdownPath, title, htmlData.text, tag, status))
    /\ inflight' = inflight \cup {Call("add", MarkdownPath)}
    /\ IF AwaitsPublishPost
       THEN pc' = "publishing" /\ UNCHANGED <<di, fi>>
       ELSE Advance
    /\ UNCHANGED <<env, rootList, tree, status, directories, mdFiles, htmlData,
                   rejected, exitCode>>

\* The promise of api.posts.add settles: fulfilled, or rejected and caught.
\* The continuation of publishPosts runs if it is awaiting this call.
PublishSettle ==
    /\ \E c \in inflight :
         /\ c.kind = "add"
         /\ inflight' = inflight \ {c}
         /\ LET awaited == pc = "publishing" /\ c.path = MarkdownPath
                h == Handler("postsAdd")
                tr == Append(trace, Note("add:throw", c.path))
            IN  \/ /\ trace' = Append(trace, Note("add:ok", c.path))
                   /\ IF awaited THEN Advance ELSE UNCHANGED <<pc, di, fi>>
                   /\ UNCHANGED rejected
                \/ IF h = "publishPost"
                   THEN /\ trace' = Append(tr, Note("log:publish", c.path))
                        /\ IF awaited THEN Advance ELSE UNCHANGED <<pc, di, fi>>
                        /\ UNCHANGED rejected
                   ELSE /\ awaited
                        /\ Propagate(h, tr, c.path)
                        /\ UNCHANGED <<di, fi>>
    /\ UNCHANGED <<env, rootList, tree, status, directories, mdFiles, htmlData,
                   exitCode>>

\* The main promise has settled and nothing is pending: the process exits,
\* with code 1 on an unhandled rejection.
Exit ==
    /\ pc = "returned"
    /\ inflight = {}
    /\ pc' = "exited"
    /\ exitCode' = <<IF rejected THEN 1 ELSE 0>>
    /\ UNCHANGED <<env, rootList, tree, status, directories, di, mdFiles, fi,
                   htmlData, inflight, trace, rejected>>

Next ==
    \/ Main
    \/ ReadRoot
    \/ ReadTag
    \/ ConvertCall
    \/ ConvertReturn
    \/ PublishCall
    \/ PublishSettle
    \/ Exit

Spec == Init /\ [][Next]_vars

\* Every call the program awaits returns or throws, and the event loop runs
\* the continuation.
FairSpec == Spec /\ WF_vars(Next)

TypeOK ==
    /\ env \in EnvValues
    /\ pc \in {"main", "readRoot", "readTag", "convert", "converting",
               "publish", "publishing", "returned", "exited"}
    /\ rejected \in BOOLEAN
    /\ exitCode \in {<<>>, <<0>>, <<1>>}

(* ------------------- vocabulary of the properties ---------------------- *)

Idx == DOMAIN trace

EvAt(kind) == {i \in Idx : trace[i].ev = kind}

Has(kind, p) == \E i \in Idx : trace[i].ev = kind /\ trace[i].path = p

Count(kind, p) == Cardinality({i \in Idx : trace[i].ev = kind /\ trace[i].path = p})

\* The first-level subdirectories of the content root, in listing order.
FirstLevelDirs == Names(Filter(rootList, {d \in RootEntries : d.isDir}))

DirPos(t) == CHOOSE k \in 1..Len(FirstLevelDirs) : FirstLevelDirs[k] = t

\* A name whose last three characters are ".md", in lower case.
LowercaseMd(f) ==
    /\ Len(f) >= 3
    /\ f[Len(f) - 2] = "."
    /\ f[Len(f) - 1] = "m"
    /\ f[Len(f)] = "d"

\* A name without its last three characters.
Stem(f) == SubSeq(f, 1, Len(f) - 3)

MdEntries(t) == Filter(tree[t], {f \in DirNames : LowercaseMd(f)})

PathsOf(t) == [k \in 1..Len(MdEntries(t)) |-> <<t, MdEntries(t)[k]>>]

RECURSIVE Flatten(_)
Flatten(dirs) ==
    IF dirs = <<>> THEN <<>> ELSE PathsOf(dirs[1]) \o Flatten(Tail(dirs))

\* Every Markdown file of the run, in the order directory listing gives.
ProcessingOrder == Flatten(FirstLevelDirs)

AllMdPaths == Range(ProcessingOrder)

\* Converter output that is more than white space.
HasText(out) == \E k \in 1..Len(out) : out[k] # " "

\* The conversion of G returned HTML that is not empty after trimming.
ConvertedToText(G) ==
    \E i \in EvAt("convert:ok") : trace[i].path = G /\ HasText(trace[i].html)

ListingFailed == \E i \in EvAt("readdir:throw") : TRUE

\* The tag directory of G was listed, which is the case for every tag
\* directory when no listing fails.
Reached(G) == Has("readdir:ok", <<G[1]>>) \/ ~ListingFailed

Exited == pc = "exited"

IsPrefix(s, t) == Len(s) <= Len(t) /\ SubSeq(t, 1, Len(s)) = s

(* ------------------------------- C1 ------------------------------------ *)

\* C1 as stated: when the conversion of F fails, publishPost is never called
\* for F, and every other .md file of the run is passed to the converter and,
\* when its conversion succeeds, to the publisher.
C1_AsStated ==
    Exited =>
        \A F \in AllMdPaths : Has("convert:throw", F) =>
            /\ ~Has("add", F)
            /\ \A G \in AllMdPaths \ {F} :
                 /\ Has("convert", G)
                 /\ Has("convert:ok", G) => Has("add", G)

\* C1, amended: when the conversion of F fails, publishPost is never called
\* for F, and every other .md file whose tag directory is listed (all of them
\* when no listing fails) is passed to the converter and, when its conversion
\* returns HTML that is not empty after trimming, to the publisher.
C1_SkipDoesNotPropagate ==
    Exited =>
        \A F \in AllMdPaths : Has("convert:throw", F) =>
            /\ ~Has("add", F)
            /\ \A G \in AllMdPaths \ {F} :
                 /\ Reached(G) => Has("convert", G)
                 /\ ConvertedToText(G) => Has("add", G)

C1_Witness ==
    /\ Exited
    /\ \E i, j, k \in Idx :
         /\ i < j /\ i < k
         /\ trace[i].ev = "convert:throw"
         /\ trace[j].ev = "add" /\ trace[j].path[1] = trace[i].path[1]
         /\ trace[k].ev = "add" /\ trace[k].path[1] # trace[i].path[1]

(* ------------------------------- C2 ------------------------------------ *)

\* C2 as stated: when the create-post call fails for F, at most one
\* create-post request is issued for F, and every file after F in processing
\* order is converted and, on successful conversion, submitted.
C2_AsStated ==
    Exited =>
        LET order == ProcessingOrder IN
        \A a \in 1..Len(order) : Has("add:throw", order[a]) =>
            /\ Count("add", order[a]) <= 1
            /\ \A b \in (a + 1)..Len(order) :
                 /\ Has("convert", order[b])
                 /\ Has("convert:ok", order[b]) => Has("add", order[b])

\* C2, amended: when the create-post call fails for F, at most one create-post
\* request is issued for F, and every file after F in processing order whose
\* tag directory is listed (all of them when no listing fails) is converted
\* and, when its conversion returns HTML that is not empty after trimming,
\* submitted.
C2_NoRetryAndContinue ==
    Exited =>
        LET order == ProcessingOrder IN
        \A a \in 1..Len(order) : Has("add:throw", order[a]) =>
            /\ Count("add", order[a]) <= 1
            /\ \A b \in (a + 1)..Len(order) :
                 /\ Reached(order[b]) => Has("convert", order[b])
                 /\ ConvertedToText(order[b]) => Has("add", order[b])

C2_Witness ==
    /\ Exited
    /\ \E i, j, k \in Idx :
         /\ i < j /\ j < k
         /\ trace[i].ev = "add:throw"
         /\ trace[j].ev = "convert" /\ trace[j].path[1] = trace[i].path[1]
         /\ trace[k].ev = "add" /\ trace[k].path[1] # trace[i].path[1]

(* ------------------------------- C3 ------------------------------------ *)

\* C3: for every create-post call, the title is the name of the source file
\* without its .md extension and the tag is the name of the first-level
\* subdirectory that directly contains the file, for every name the .md
\* filter accepts (the name ".md" included).
C3_TitleAndTag ==
    \A i \in EvAt("add") :
        LET tag == trace[i].path[1]
            file == trace[i].path[2]
        IN  /\ tag \in TagDirsOf(rootList)
            /\ file \in Range(tree[tag])
            /\ LowercaseMd(file)
            /\ trace[i].tag = tag
            /\ trace[i].title = Stem(file)

\* What the code does: the title is the stem for every accepted name but
\* ".md", whose title is ".md".
C3_TitleOfCode ==
    \A i \in EvAt("add") :
        LET tag == trace[i].path[1]
            file == trace[i].path[2]
        IN  /\ tag \in TagDirsOf(rootList)
            /\ file \in Range(tree[tag])
            /\ LowercaseMd(file)
            /\ trace[i].tag = tag
            /\ trace[i].title = IF file = F_dot_md THEN F_dot_md ELSE Stem(file)

(* ------------------------------- C4 ------------------------------------ *)

TagListingFailures == {i \in EvAt("readdir:throw") : Len(trace[i].path) = 1}

C4_Aborted ==
    \A i \in TagListingFailures :
        LET t == trace[i].path[1] IN
        /\ Len(trace) = i + 1
        /\ trace[i + 1].ev = "log:fatal"
        /\ pc \in {"returned", "exited"}
        /\ inflight = {}
        /\ \A j \in Idx : trace[j].ev \in {"convert", "add"} =>
               DirPos(trace[j].path[1]) < DirPos(t)

\* C4: when listing a tag directory fails, a fatal error is logged and the
\* run aborts: no conversion and no create-post call is made for a file of
\* that directory or of a later one, nothing happens after the failure, and
\* the calls made before it stay made.
C4_ListingFailureAborts ==
    /\ []C4_Aborted
    /\ [][IsPrefix(trace, trace')]_vars

C4_Witness ==
    /\ Exited
    /\ \E i \in TagListingFailures :
         /\ trace[i].path[1] = FirstLevelDirs[1]
         /\ MdEntries(FirstLevelDirs[1]) # <<>>
         /\ Len(FirstLevelDirs) = 2
         /\ MdEntries(FirstLevelDirs[2]) # <<>>

(* ------------------------------- C5 ------------------------------------ *)

\* C5 as stated: every create-post call carries the configured POST_STATUS,
\* or draft if POST_STATUS is unset.
C5_AsStated ==
    \A i \in EvAt("add") :
        trace[i].status = IF env = <<>> THEN "draft" ELSE env[1]

C5_OneStatus ==
    \A i \in EvAt("add") :
        /\ trace[i].status = IF env = <<>> \/ env = <<"">> THEN "draft" ELSE env[1]
        /\ \A j \in EvAt("add") : trace[j].status = trace[i].status

\* C5, amended: every create-post call of one run carries the same status,
\* which is the configured POST_STATUS, or draft if POST_STATUS is unset or
\* set to the empty string; the status is read once before the loop and
\* never changes afterwards.
C5_StatusFixed ==
    /\ []C5_OneStatus
    /\ [][pc # "main" => status' = status]_vars

C5_Witness ==
    /\ env = <<"published">>
    /\ \E i, j \in EvAt("add") : trace[i].path[1] # trace[j].path[1]

(* ------------------------------- C6 ------------------------------------ *)

\* The file at position a of the processing order failed to convert or to
\* publish.
FileFailed(order, a) ==
    Has("convert:throw", order[a]) \/ Has("add:throw", order[a])

\* The tag directories after position k of dirs are listed and their files
\* are converted.
LaterDirsProcessed(dirs, order, k) ==
    /\ \A m \in (k + 1)..Len(dirs) : Has("readdir:ok", <<dirs[m]>>)
    /\ \A b \in 1..Len(order) :
          (\E m \in (k + 1)..Len(dirs) : order[b][1] = dirs[m])
             => Has("convert", order[b])

\* The files after position a of the processing order that lie in the same
\* tag directory are converted.
LaterFilesProcessed(order, a) ==
    \A b \in (a + 1)..Len(order) :
        order[b][1] = order[a][1] => Has("convert", order[b])

\* C6 as stated: after a failure of listing a tag directory, converting a
\* file or publishing a post, the remaining tag directories and files are
\* still processed.
C6_AsStated ==
    Exited =>
        LET dirs == FirstLevelDirs
            order == ProcessingOrder
        IN  /\ \A k \in 1..Len(dirs) : Has("readdir:throw", <<dirs[k]>>) =>
                  LaterDirsProcessed(dirs, order, k)
            /\ \A a \in 1..Len(order) : FileFailed(order, a) =>
                  /\ LaterFilesProcessed(order, a)
                  /\ \A k \in 1..Len(dirs) : dirs[k] = order[a][1] =>
                        LaterDirsProcessed(dirs, order, k)

\* C6, amended: a failure of converting a file or of publishing a post is
\* caught where it happens and never aborts the batch: after it, the
\* remaining files of the tag directory are converted and, unless a
\* directory listing fails, so are the remaining tag directories and their
\* files.  (A failure of listing a tag directory does abort the batch.)
C6_FileFailuresDoNotAbort ==
    Exited =>
        LET dirs == FirstLevelDirs
            order == ProcessingOrder
        IN  \A a \in 1..Len(order) : FileFailed(order, a) =>
               /\ ~rejected
               /\ LaterFilesProcessed(order, a)
               /\ \A b \in (a + 1)..Len(order) :
                     Reached(order[b]) => Has("convert", order[b])
               /\ ~ListingFailed =>
                     \A k \in 1..Len(dirs) : dirs[k] = order[a][1] =>
                        LaterDirsProcessed(dirs, order, k)

C6_Witness ==
    /\ Exited
    /\ ~ListingFailed
    /\ Len(FirstLevelDirs) = 2
    /\ \E i \in EvAt("convert:throw") : \E j \in EvAt("add:throw") :
         /\ i < j
         /\ trace[i].path[1] = FirstLevelDirs[1]
         /\ trace[j].path[1] = FirstLevelDirs[1]
    /\ Has("add", <<FirstLevelDirs[2], F_a_md>>)

(* ------------------------------- C7 ------------------------------------ *)

\* C7: whatever the content layout and the outcomes of directory listing,
\* conversion and publishing, the run terminates, no error escapes
\* publishPosts or the main async function, and the exit code is 0.
C7_TerminatesWithExit0 ==
    /\ <>Exited
    /\ [](~rejected)
    /\ [](Exited => exitCode = <<0>>)

C7_Witness ==
    /\ Exited
    /\ exitCode = <<0>>
    /\ EvAt("convert:throw") # {}
    /\ EvAt("add:throw") # {}
    /\ TagListingFailures # {}

(* ------------------------------- C8 ------------------------------------ *)

IsConvertEv(e) == e.ev = "convert"

ConvertCalls == SelectSeq(trace, IsConvertEv)

\* The trace entry after a call is the outcome of that call: nothing else
\* starts or happens while the call is pending.
FollowedByOutcome(i, outcomes) ==
    i < Len(trace) =>
        /\ trace[i + 1].ev \in outcomes
        /\ trace[i + 1].path = trace[i].path

\* The files converted before trace entry i.
ConvertedBefore(i) ==
    {trace[j].path : j \in {x \in 1..(i - 1) : trace[x].ev = "convert"}}

\* The Markdown files of the tag directories listed before directory t.
FilesOfDirsBefore(dirs, order, t) ==
    {order[b] : b \in {c \in 1..Len(order) :
        \E m, n \in 1..Len(dirs) :
            m < n /\ dirs[m] = order[c][1] /\ dirs[n] = t}}

\* C8: at most one call is in flight and nothing starts while a conversion
\* or a create-post call is pending (its outcome is the next thing that
\* happens); files are converted in directory-listing order; and a tag
\* directory is listed only after all files of the earlier tag directories
\* were handled.
C8_Sequential ==
    /\ Cardinality(inflight) <= 1
    /\ inflight # {} => trace[Len(trace)].ev \in {"convert", "add"}
    /\ \A i \in Idx :
         /\ trace[i].ev = "convert" =>
               FollowedByOutcome(i, {"convert:ok", "convert:throw"})
         /\ trace[i].ev = "add" =>
               FollowedByOutcome(i, {"add:ok", "add:throw"})
    /\ LET calls == ConvertCalls
           order == ProcessingOrder
           dirs == FirstLevelDirs
       IN  /\ Len(calls) <= Len(order)
           /\ \A k \in 1..Len(calls) : calls[k].path = order[k]
           /\ \A i \in Idx :
                 trace[i].ev \in {"readdir:ok", "readdir:throw"} /\ Len(trace[i].path) = 1 =>
                    ConvertedBefore(i) = FilesOfDirsBefore(dirs, order, trace[i].path[1])

C8_Witness ==
    \E i, j, k \in Idx :
        /\ i < j /\ j < k
        /\ trace[i].ev = "add"
        /\ trace[j].ev = "add:ok"
        /\ trace[k].ev = "convert"
        /\ trace[k].path[1] # trace[i].path[1]
        /\ Len(ConvertCalls) >= 3

(* ------------------------------- C9 ------------------------------------ *)

\* The entries directly inside a first-level subdirectory of the content root
\* whose name ends in lower-case ".md".
Eligible ==
    {<<t, f>> : t \in TagDirsOf(rootList), f \in {g \in DirNames : LowercaseMd(g)}}
        \cap {p \in Tags \X DirNames : p[2] \in Range(tree[p[1]])}

\* The other paths of the content tree: the entries of the root and the
\* other entries of the tag directories.
OtherPaths ==
    {<<rootList[i].name>> : i \in 1..Len(rootList)}
        \cup {p \in Tags \X DirNames :
                p[2] \in Range(tree[p[1]]) /\ ~LowercaseMd(p[2])}

\* C9: in a run in which no directory listing fails, the converter is called
\* exactly once for each entry directly inside a first-level subdirectory
\* whose name ends in lower-case ".md", and neither the converter nor the
\* publisher is called for any other path.
C9_ExactlyTheMdFiles ==
    Exited /\ ~ListingFailed =>
        /\ \A p \in Eligible : Count("convert", p) = 1
        /\ \A i \in Idx : trace[i].ev \in {"convert", "add"} =>
              trace[i].path \in Eligible
        /\ \A p \in OtherPaths : ~Has("convert", p) /\ ~Has("add", p)

C9_Witness ==
    /\ Exited
    /\ ~ListingFailed
    /\ \E i \in 1..Len(rootList) : ~rootList[i].isDir
    /\ \E t \in TagDirsOf(rootList) :
         /\ Range(tree[t]) = {F_b_MD, F_a_md}
         /\ Has("convert", <<t, F_a_md>>)

(* ------------------------------- C10 ----------------------------------- *)

\* C10: every create-post call carries HTML that is not empty, and a file
\* whose converter output is empty or white space only is skipped like a
\* failed conversion: no create-post call is made for it.
C10_NoEmptyBody ==
    /\ \A i \in EvAt("add") :
          /\ trace[i].html # <<>>
          /\ trace[i].html[1] # " "
          /\ trace[i].html[Len(trace[i].html)] # " "
    /\ \A i \in EvAt("convert:ok") :
          ~HasText(trace[i].html) => ~Has("add", trace[i].path)

C10_Witness ==
    /\ Exited
    /\ \E i \in EvAt("convert:ok") : \E j \in EvAt("add") :
         /\ trace[i].html = <<" ">>
         /\ ~Has("add", trace[i].path)
         /\ i < j

====
